---- MODULE Spec2Model ----
(***************************************************************************)
(* Model of the LLM code deployment service: the Flask front door          *)
(* (app.py), the background pipeline process_task_async (app.py), the       *)
(* publication target GitHubManager (github_manager.py) and the result      *)
(* reporter submit_to_evaluation (evaluator.py).                            *)
(*                                                                         *)
(* Two specifications:                                                      *)
(*   Spec        the service: requests arrive, each accepted request        *)
(*               spawns a pipeline thread, threads interleave at every      *)
(*               access to shared state (the status tracker, the tasks      *)
(*               store, the hosting platform);                              *)
(*   SpecReport  one call of submit_to_evaluation(url, data, max_retries),  *)
(*               stepped attempt by attempt against an arbitrary server.    *)
(***************************************************************************)
EXTENDS Integers, Sequences, FiniteSets, TLC

\* ------------------------------------------------------------------------
\* Bounds of the model
\* ------------------------------------------------------------------------

\* Number of pipeline threads the front door may spawn.
MaxExec == 2

\* Largest round number a request carries (rounds are 1..MaxRound).
MaxRound == 2

\* Largest max_retries argument tried on submit_to_evaluation
\* (arguments are -1..MaxRetriesArg; the schedule has 5 entries).
MaxRetriesArg == 6

\* Largest number of lines of a completion given to _parse_response.
MaxLines == 3

\* Largest number of attachments given to _parse_response.
MaxAttachments == 1

\* Largest number of files of a file set given to create_repo.
MaxFiles == 3

\* ------------------------------------------------------------------------
\* evaluator.py: submit_to_evaluation
\* ------------------------------------------------------------------------

\* Mutant: the schedule starts one entry late.
retry_delays_Shifted == <<2, 4, 8, 16, 32>>

\* retry_delays = [1, 2, 4, 8, 16]
retry_delays == <<1, 2, 4, 8, 16>>

\* The default of the max_retries parameter.
DefaultMaxRetries == 5

\* The max_retries arguments tried (Python accepts a negative slice end).
RetriesArgs == (-1)..MaxRetriesArg

Min(a, b) == IF a < b THEN a ELSE b
Max(a, b) == IF a > b THEN a ELSE b

\* Python's s[:n]: the first n elements, or all but the last -n when n < 0.
SliceTo(s, n) ==
    IF n >= 0 THEN SubSeq(s, 1, Min(n, Len(s)))
    ELSE SubSeq(s, 1, Max(Len(s) + n, 0))

\* The pairs the for loop runs over: enumerate(retry_delays[:max_retries], 1).
\* Attempt i sees delay Enumerated(max_retries)[i].
Enumerated(max_retries) == SliceTo(retry_delays, max_retries)

\* What requests.post can do: answer with a status code, or raise.
\* Timeout and ConnectionError are requests.exceptions.RequestException
\* subclasses; "Exception" is any exception outside that hierarchy.
StatusCodes == {200, 201, 400, 404, 500, 503}
PostOutcomes ==
    [kind : {"response"}, status_code : StatusCodes]
        \cup [kind : {"Timeout", "RequestException", "Exception"}, status_code : {0}]

\* Which except clause, if any, catches what requests.post raised.
CaughtByReporter(kind) == kind \in {"Timeout", "RequestException"}

\* Mutant: the lower end of the 4xx range is excluded.
IsClientError_Exclusive(status_code) == 400 < status_code /\ status_code < 500

\* The test that guards "Client error - not retrying".
IsClientError(status_code) == 400 <= status_code /\ status_code < 500

\* The test that guards time.sleep(delay) at the end of the loop body.
SleepsAfter(attempt, max_retries) == attempt < max_retries

\* One iteration of the loop body for the enumerate pair (attempt, delay)
\* when requests.post behaves as o.  kind is "return" (value is the result),
\* "raise" (the exception leaves the function) or "continue" (the body ran
\* to its end); sleep lists the delay slept in this iteration, if any.
LoopBody(attempt, delay, max_retries, o) ==
    LET fallthrough ==
            [kind |-> "continue", value |-> FALSE,
             sleep |-> IF SleepsAfter(attempt, max_retries)
                       THEN <<delay>> ELSE <<>>]
    IN  IF o.kind = "response"
        THEN IF o.status_code = 200
             THEN [kind |-> "return", value |-> TRUE, sleep |-> <<>>]
             ELSE IF IsClientError(o.status_code)
                  THEN [kind |-> "return", value |-> FALSE, sleep |-> <<>>]
                  ELSE fallthrough
        ELSE IF CaughtByReporter(o.kind)
             THEN fallthrough
             ELSE [kind |-> "raise", value |-> FALSE, sleep |-> <<>>]

\* Every way a call can end when the loop is about to enter iteration
\* attempt: the results of the iterations that return or raise, and of the
\* "return False" after the loop when every iteration runs to its end.
RECURSIVE SubmitOutcomes(_, _)
SubmitOutcomes(attempt, max_retries) ==
    IF attempt > Len(Enumerated(max_retries))
    THEN {[kind |-> "return", value |-> FALSE]}
    ELSE LET rest == SubmitOutcomes(attempt + 1, max_retries)
             bodies == {LoopBody(attempt, Enumerated(max_retries)[attempt],
                                 max_retries, o) : o \in PostOutcomes}
         IN  UNION {IF b.kind = "continue" THEN rest
                    ELSE {[kind |-> b.kind, value |-> b.value]} : b \in bodies}

\* State of one call of submit_to_evaluation (specification SpecReport).
VARIABLES
    r_max_retries,  \* the max_retries argument
    r_attempt,      \* number of loop iterations entered so far
    r_pc,           \* "loop" | "returned" | "raised"
    r_ret,          \* the return value, once r_pc = "returned"
    r_sleeps,       \* the arguments of time.sleep, in order
    r_posts         \* what requests.post did, attempt by attempt

rvars == <<r_max_retries, r_attempt, r_pc, r_ret, r_sleeps, r_posts>>

R_Idle ==
    /\ r_max_retries = DefaultMaxRetries
    /\ r_attempt = 0
    /\ r_pc = "idle"
    /\ r_ret = FALSE
    /\ r_sleeps = <<>>
    /\ r_posts = <<>>

R_Init ==
    /\ r_max_retries \in RetriesArgs
    /\ r_attempt = 0
    /\ r_pc = "loop"
    /\ r_ret = FALSE
    /\ r_sleeps = <<>>
    /\ r_posts = <<>>

\* One loop iteration: the POST and whatever follows it in the body.
R_Attempt ==
    /\ r_pc = "loop"
    /\ r_attempt < Len(Enumerated(r_max_retries))
    /\ \E o \in PostOutcomes :
         LET attempt == r_attempt + 1
             delay == Enumerated(r_max_retries)[attempt]
             b == LoopBody(attempt, delay, r_max_retries, o)
         IN  /\ r_attempt' = attempt
             /\ r_posts' = Append(r_posts, o)
             /\ r_sleeps' = r_sleeps \o b.sleep
             /\ r_pc' = CASE b.kind = "return" -> "returned"
                          [] b.kind = "raise" -> "raised"
                          [] OTHER -> "loop"
             /\ r_ret' = b.value
    /\ UNCHANGED r_max_retries

\* The loop is exhausted: "Failed to submit after ... attempts", return False.
R_Exhausted ==
    /\ r_pc = "loop"
    /\ r_attempt >= Len(Enumerated(r_max_retries))
    /\ r_pc' = "returned"
    /\ r_ret' = FALSE
    /\ UNCHANGED <<r_max_retries, r_attempt, r_sleeps, r_posts>>

\* ------------------------------------------------------------------------
\* code_generator.py: _parse_response and _add_required_files
\*
\* A completion is a sequence of lines.  A line is a file marker
\* "=== <name> ===" (the test line.strip().startswith('=== ') and
\* .endswith(' ===') succeeds) or any other text; of a text line only what
\* the code looks at is kept: whether it is blank and whether it holds a
\* markup root tag.
\* ------------------------------------------------------------------------

\* The names tried in markers; "" is the marker "===  ===", whose name is
\* empty once '=== ' and ' ===' are replaced and the rest is stripped.
MarkerNames == {"index.html", "README.md", "LICENSE.md", "data.csv", ""}

\* The text lines tried: one with '<html', one without, a blank one.
TextLines == {"<html>", "hello", ""}

Lines == [marker : {TRUE}, text : MarkerNames] \cup [marker : {FALSE}, text : TextLines]

SeqsUpTo(S, n) == UNION {[1..k -> S] : k \in 0..n}

\* response.split('\n') has at least one element.
Completions == SeqsUpTo(Lines, MaxLines) \ {<<>>}

\* An attachment's url: an inline data URI, a remote URL, or none ('').
DataUri == "data:text/csv;base64,QQ=="
RemoteUrl == "https://example.com/data.csv"

\* att.get('name', '') and att.get('url', '') of the attachments tried.
Attachments == [name : {"", "index.html", "data.csv"}, url : {DataUri, RemoteUrl, ""}]

AttachmentLists == SeqsUpTo(Attachments, MaxAttachments)

\* url.startswith('data:')
StartsWithData(url) == url = DataUri

\* The line as it stands in the completion text.
Render(line) == IF line.marker THEN "=== " \o line.text \o " ===" ELSE line.text

\* '\n'.join(lines).strip(), as a sequence of lines: the blank lines at
\* both ends go.
RECURSIVE StripLeft(_)
StripLeft(ls) ==
    IF ls = <<>> THEN <<>>
    ELSE IF Head(ls) = "" THEN StripLeft(Tail(ls)) ELSE ls

RECURSIVE StripRight(_)
StripRight(ls) ==
    IF ls = <<>> THEN <<>>
    ELSE IF ls[Len(ls)] = "" THEN StripRight(SubSeq(ls, 1, Len(ls) - 1)) ELSE ls

Strip(ls) == StripRight(StripLeft(ls))

\* The values of the file set: text from the completion, the completion
\* wrapped in the HTML skeleton, a data URI, the MIT text, the README.
TextContent(ls) == [kind |-> "text", body |-> ls]
WrappedContent(ls) == [kind |-> "wrapped", body |-> ls]
UriContent(url) == [kind |-> "data_uri", body |-> <<url>>]
MitLicense == [kind |-> "MIT License", body |-> <<>>]
GeneratedReadme == [kind |-> "README", body |-> <<>>]

\* "if current_file: files[current_file] = '\n'.join(current_content).strip()"
SaveFile(files, current_file, current_content) ==
    IF current_file # ""
    THEN [x \in DOMAIN files \cup {current_file} |->
             IF x = current_file THEN TextContent(Strip(current_content))
             ELSE files[x]]
    ELSE files

\* The for loop of _parse_response over the lines from index i on, and the
\* "Save last file" after it.
RECURSIVE ScanLines(_, _, _, _, _)
ScanLines(lines, i, files, current_file, current_content) ==
    IF i > Len(lines)
    THEN SaveFile(files, current_file, current_content)
    ELSE IF lines[i].marker
         THEN ScanLines(lines, i + 1,
                        SaveFile(files, current_file, current_content),
                        lines[i].text, <<>>)
         ELSE IF current_file # ""
              THEN ScanLines(lines, i + 1, files, current_file,
                             Append(current_content, lines[i].text))
              ELSE ScanLines(lines, i + 1, files, current_file, current_content)

\* '<!DOCTYPE html>' in response or '<html' in response
HasMarkup(lines) ==
    \E i \in 1..Len(lines) : ~lines[i].marker /\ lines[i].text = "<html>"

\* "if not files": the whole response becomes index.html, as it is or
\* wrapped in the skeleton.
WholeResponse(lines) ==
    LET text == [i \in 1..Len(lines) |-> Render(lines[i])]
    IN  [x \in {"index.html"} |->
            IF HasMarkup(lines) THEN TextContent(Strip(text))
            ELSE WrappedContent(text)]

\* The file set of _parse_response before the attachments are looked at.
CompletionFiles(lines) ==
    LET files == ScanLines(lines, 1, <<>>, "", <<>>)
    IN  IF DOMAIN files = {} THEN WholeResponse(lines) ELSE files

\* "if name and url.startswith('data:'): files[name] = url"
StoreAttachment(files, att) ==
    IF att.name # "" /\ StartsWithData(att.url)
    THEN [x \in DOMAIN files \cup {att.name} |->
             IF x = att.name THEN UriContent(att.url) ELSE files[x]]
    ELSE files

\* "for att in attachments", from index i on.
RECURSIVE StoreAttachments(_, _, _)
StoreAttachments(files, attachments, i) ==
    IF i > Len(attachments) THEN files
    ELSE StoreAttachments(StoreAttachment(files, attachments[i]), attachments, i + 1)

parse_response(response, attachments) ==
    StoreAttachments(CompletionFiles(response), attachments, 1)

\* LICENSE unless LICENSE or LICENSE.md is there, README.md unless it is.
add_required_files(files) ==
    LET licensed ==
            IF "LICENSE" \notin DOMAIN files /\ "LICENSE.md" \notin DOMAIN files
            THEN [x \in DOMAIN files \cup {"LICENSE"} |->
                     IF x = "LICENSE" THEN MitLicense ELSE files[x]]
            ELSE files
    IN  IF "README.md" \notin DOMAIN licensed
        THEN [x \in DOMAIN licensed \cup {"README.md"} |->
                 IF x = "README.md" THEN GeneratedReadme ELSE licensed[x]]
        ELSE licensed

\* State of one call of generate_app after _call_llm has returned
\* (specification SpecGen).
VARIABLES
    g_response,     \* the completion _call_llm returned
    g_attachments,  \* the attachments argument
    g_pc,           \* "parse" | "add_required" | "returned"
    g_files         \* the local files

gvars == <<g_response, g_attachments, g_pc, g_files>>

G_Idle ==
    /\ g_response = <<>>
    /\ g_attachments = <<>>
    /\ g_pc = "idle"
    /\ g_files = <<>>

G_Init ==
    /\ g_response \in Completions
    /\ g_attachments \in AttachmentLists
    /\ g_pc = "parse"
    /\ g_files = <<>>

\* files = self._parse_response(response, attachments)
G_Parse ==
    /\ g_pc = "parse"
    /\ g_files' = parse_response(g_response, g_attachments)
    /\ g_pc' = "add_required"
    /\ UNCHANGED <<g_response, g_attachments>>

\* files = self._add_required_files(files, brief, checks); return files
G_AddRequired ==
    /\ g_pc = "add_required"
    /\ g_files' = add_required_files(g_files)
    /\ g_pc' = "returned"
    /\ UNCHANGED <<g_response, g_attachments>>

\* ------------------------------------------------------------------------
\* github_manager.py: the hosting platform's answers
\* ------------------------------------------------------------------------

\* What one call of the platform can do: succeed, raise GithubException
\* with a status, or raise something else (the connection failed).
GhOk == [kind |-> "ok", status |-> 0]
GhErr(s) == [kind |-> "GithubException", status |-> s]
GhOther == [kind |-> "ConnectionError", status |-> 0]

\* str(e) of what a platform call raised.
ErrorText(o) ==
    IF o.kind = "GithubException"
    THEN CASE o.status = 404 -> "GithubException 404"
           [] o.status = 409 -> "GithubException 409"
           [] o.status = 422 -> "GithubException 422"
           [] OTHER -> "GithubException 503"
    ELSE "ConnectionError"

\* user.create_repo(name): 422 when the name is taken.
CreateTargetOutcomes(repo) ==
    IF repo.exists THEN {GhErr(422), GhErr(503), GhOther}
    ELSE {GhOk, GhErr(503), GhOther}

\* create_git_blob / create_git_tree / create_git_commit / create_git_ref.
GitDataOutcomes == {GhOk, GhErr(422), GhErr(503), GhOther}

\* update_repo lets every exception of its calls through, whatever its
\* class, so one failure stands for all of them at each of its calls.

\* user.get_repo(name): 404 when there is no such repository.
GetRepoOutcomes(repo) ==
    IF repo.exists THEN {GhOk, GhErr(503)} ELSE {GhErr(404)}

\* get_contents / update_file / create_file: 409 when the sha is stale.
ContentsOutcomes == {GhOk, GhErr(409)}

\* repo.get_commits()
CommitsOutcomes == {GhOk, GhErr(503)}

\* create_pages_site: 409 when the site is already enabled.
PagesOutcomes == {GhOk, GhErr(409), GhErr(503), GhOther}

\* Mutant: no status makes create_repo fall back.
CreateFallsBack_Never(o) == FALSE

\* create_repo's handler: "if e.status == 422" runs update_repo instead.
CreateFallsBack(o) == o.status = 422

\* _enable_pages catches GithubException only (and only logs it).
EnablePagesRaises(o) == o.kind \notin {"ok", "GithubException"}

\* ------------------------------------------------------------------------
\* github_manager.py: one call of create_repo(repo_name, files), platform
\* call by platform call (specification SpecPublish)
\*
\* The files are numbered 1..b_n.  The branch heads/main of the repository
\* maps each file to "none" (not on the branch), "old" (there before the
\* call) or "new" (the content this call publishes).
\* ------------------------------------------------------------------------

FileIds == 1..MaxFiles

VARIABLES
    b_n,         \* len(files)
    b_repo,      \* [exists, main]: the repository named repo_name
    b_pc,        \* the platform call about to be made, "returned" or "raised"
    b_blobs,     \* number of blobs created (len(elements))
    b_tree,      \* number of entries of the tree created, 0 before
    b_commit,    \* number of entries of the tree of the commit created, 0 before
    b_refsets,   \* number of times this call has set heads/main
    b_i,         \* number of files update_repo has written
    b_fellback   \* whether create_repo's handler called update_repo

bvars == <<b_n, b_repo, b_pc, b_blobs, b_tree, b_commit, b_refsets, b_i, b_fellback>>

EmptyBranch == [f \in FileIds |-> "none"]

B_Idle ==
    /\ b_n = 0
    /\ b_repo = [exists |-> FALSE, main |-> EmptyBranch]
    /\ b_pc = "idle"
    /\ b_blobs = 0 /\ b_tree = 0 /\ b_commit = 0 /\ b_refsets = 0 /\ b_i = 0
    /\ b_fellback = FALSE

\* The call begins: a non-empty file set (generate_app always returns a
\* license and a README), and a repository that does not exist or exists
\* with some of the files on its branch.
B_Init ==
    /\ b_n \in 1..MaxFiles
    /\ b_repo \in [exists : {FALSE}, main : {EmptyBranch}]
                    \cup [exists : {TRUE}, main : [FileIds -> {"none", "old"}]]
    /\ b_pc = "create"
    /\ b_blobs = 0 /\ b_tree = 0 /\ b_commit = 0 /\ b_refsets = 0 /\ b_i = 0
    /\ b_fellback = FALSE

\* Mutant: the blob loop stops after the first file.
AfterBlob_StopsEarly(blobs, n) == "tree"

\* "for filename, content in files.items()": another blob, or the tree.
AfterBlob(blobs, n) == IF blobs < n THEN "blob" ELSE "tree"

\* "for filename, content in files.items()" of update_repo.
AfterFile(i, n) == IF i < n THEN "file" ELSE "commits"

\* The branch once heads/main points at a parentless commit whose tree has
\* the first k files.
BranchOfCommit(k) == [f \in FileIds |-> IF f <= k THEN "new" ELSE "none"]

\* create_repo's except clause on what a call of its try block raised.
B_Handler(o) ==
    IF o.kind = "GithubException" /\ CreateFallsBack(o)
    THEN /\ b_pc' = "get_repo"
         /\ b_fellback' = TRUE
    ELSE /\ b_pc' = "raised"
         /\ UNCHANGED b_fellback

\* self.user.create_repo(name=repo_name, ...)
B_CreateRepo ==
    /\ b_pc = "create"
    /\ \E o \in CreateTargetOutcomes(b_repo) :
         IF o.kind = "ok"
         THEN /\ b_repo' = [b_repo EXCEPT !.exists = TRUE]
              /\ b_pc' = "blob"
              /\ UNCHANGED b_fellback
         ELSE /\ B_Handler(o)
              /\ UNCHANGED b_repo
    /\ UNCHANGED <<b_n, b_blobs, b_tree, b_commit, b_refsets, b_i>>

\* repo.create_git_blob(content, "utf-8") for the next file
B_Blob ==
    /\ b_pc = "blob"
    /\ \E o \in GitDataOutcomes :
         IF o.kind = "ok"
         THEN /\ b_blobs' = b_blobs + 1
              /\ b_pc' = AfterBlob(b_blobs + 1, b_n)
              /\ UNCHANGED b_fellback
         ELSE /\ B_Handler(o)
              /\ UNCHANGED b_blobs
    /\ UNCHANGED <<b_n, b_repo, b_tree, b_commit, b_refsets, b_i>>

\* repo.create_git_tree(elements)
B_Tree ==
    /\ b_pc = "tree"
    /\ \E o \in GitDataOutcomes :
         IF o.kind = "ok"
         THEN /\ b_tree' = b_blobs
              /\ b_pc' = "commit"
              /\ UNCHANGED b_fellback
         ELSE /\ B_Handler(o)
              /\ UNCHANGED b_tree
    /\ UNCHANGED <<b_n, b_repo, b_blobs, b_commit, b_refsets, b_i>>

\* repo.create_git_commit(message, tree, parents=[])
B_Commit ==
    /\ b_pc = "commit"
    /\ \E o \in GitDataOutcomes :
         IF o.kind = "ok"
         THEN /\ b_commit' = b_tree
              /\ b_pc' = "ref"
              /\ UNCHANGED b_fellback
         ELSE /\ B_Handler(o)
              /\ UNCHANGED b_commit
    /\ UNCHANGED <<b_n, b_repo, b_blobs, b_tree, b_refsets, b_i>>

\* ref.edit(commit.sha), or create_git_ref("refs/heads/main", commit.sha)
\* when get_git_ref or the edit raised; o is how the one that counts ended.
B_Ref ==
    /\ b_pc = "ref"
    /\ \E o \in GitDataOutcomes :
         IF o.kind = "ok"
         THEN /\ b_repo' = [b_repo EXCEPT !.main = BranchOfCommit(b_commit)]
              /\ b_refsets' = b_refsets + 1
              /\ b_pc' = "pages"
              /\ UNCHANGED b_fellback
         ELSE /\ B_Handler(o)
              /\ UNCHANGED <<b_repo, b_refsets>>
    /\ UNCHANGED <<b_n, b_blobs, b_tree, b_commit, b_i>>

\* self._enable_pages(repo), then return
B_Pages ==
    /\ b_pc = "pages"
    /\ \E o \in PagesOutcomes :
         b_pc' = IF EnablePagesRaises(o) THEN "raised" ELSE "returned"
    /\ UNCHANGED <<b_n, b_repo, b_blobs, b_tree, b_commit, b_refsets, b_i, b_fellback>>

\* update_repo: self.user.get_repo(repo_name)
B_GetRepo ==
    /\ b_pc = "get_repo"
    /\ \E o \in GetRepoOutcomes(b_repo) :
         b_pc' = IF o.kind = "ok" THEN "file" ELSE "raised"
    /\ UNCHANGED <<b_n, b_repo, b_blobs, b_tree, b_commit, b_refsets, b_i, b_fellback>>

\* update_repo: _update_or_create_file for the next file (get_contents,
\* then update_file, or create_file on 404): one commit on main per file.
B_File ==
    /\ b_pc = "file"
    /\ \E o \in ContentsOutcomes :
         IF o.kind = "ok"
         THEN /\ b_repo' = [b_repo EXCEPT !.main[b_i + 1] = "new"]
              /\ b_i' = b_i + 1
              /\ b_pc' = AfterFile(b_i + 1, b_n)
         ELSE /\ b_pc' = "raised"
              /\ UNCHANGED <<b_repo, b_i>>
    /\ UNCHANGED <<b_n, b_blobs, b_tree, b_commit, b_refsets, b_fellback>>

\* update_repo: repo.get_commits()[0].sha
B_Commits ==
    /\ b_pc = "commits"
    /\ \E o \in CommitsOutcomes :
         b_pc' = IF o.kind = "ok" THEN "pages_u" ELSE "raised"
    /\ UNCHANGED <<b_n, b_repo, b_blobs, b_tree, b_commit, b_refsets, b_i, b_fellback>>

\* update_repo: _enable_pages inside try/except-all, then return
B_PagesU ==
    /\ b_pc = "pages_u"
    /\ \E o \in PagesOutcomes : b_pc' = "returned"
    /\ UNCHANGED <<b_n, b_repo, b_blobs, b_tree, b_commit, b_refsets, b_i, b_fellback>>

\* ------------------------------------------------------------------------
\* app.py: configuration and the two in-memory stores
\* ------------------------------------------------------------------------

\* SECRET_CODE = os.getenv('SECRET_CODE', 'your-secret-here')
SECRET_CODE == "your-secret-here"

\* Values LLM_PROVIDER can be configured to ('groq' is the default).
Providers == {"groq", "gemini"}

\* required_fields of handle_task, in the order they are tested.
required_fields ==
    <<"email", "secret", "task", "round", "nonce", "brief", "checks", "evaluation_url">>

RequiredSet == {required_fields[i] : i \in 1..Len(required_fields)}

TaskIds == {"t1", "t2"}

\* A 'task' field that is a JSON array: it passes validation (only the
\* presence of the field is tested) but cannot be a dict key.
UnhashableTask == "['t1']"

\* Whether processing_status[task_id] can be evaluated or assigned.
Hashable(task_id) == task_id # UnhashableTask
Rounds == 1..MaxRound
Secrets == {SECRET_CODE, "wrong"}
Email == "a@example.com"

Execs == 1..MaxExec

\* The JSON bodies tried on POST /api/task: an object with all required
\* fields, with exactly one missing (the task and round of such a body play
\* no part, one value of each is tried), or with none at all; and a body
\* whose task is a JSON array.
FieldSets == {RequiredSet} \cup {RequiredSet \ {f} : f \in RequiredSet} \cup {{}}
Requests ==
    [fields : {RequiredSet}, secret : Secrets,
     task : TaskIds, round : Rounds]
        \cup [fields : FieldSets, secret : {SECRET_CODE},
              task : {"t1"}, round : {1}]
        \cup [fields : {RequiredSet}, secret : {SECRET_CODE},
              task : {UnhashableTask}, round : {1}]

VARIABLES
    LLM_PROVIDER,       \* the configured provider name
    processing_status,  \* task id -> reference of its status dict, 0 = no key
    heap,               \* reference -> status dict (Python dicts are shared by reference)
    tasks_db,           \* key -> [task_data, result], result a reference
    nthreads,           \* number of pipeline threads started so far
    threads,            \* thread -> its program counter and local variables
    github,             \* the hosting platform: task id -> state of the repository
    response            \* the last response of POST /api/task

pvars == <<LLM_PROVIDER, processing_status, heap, tasks_db, nthreads, threads,
           github, response>>

\* The variables of the specifications of single calls.
svars == <<rvars, gvars, bvars>>

vars == <<pvars, svars>>

\* The two dicts one thread can allocate: line 31, and line 86 or line 103.
FirstRef(e) == 2 * e - 1
LastRef(e) == 2 * e

\* d[k] = v on a dict d.
SetItem(d, k, v) == [x \in DOMAIN d \cup {k} |-> IF x = k THEN v ELSE d[x]]

\* The status dict of task id t, as check_status would read it.
HasStatus(t) == processing_status[t] # 0
StatusOf(t) == heap[processing_status[t]]

NoTaskData == [task |-> "t1", round |-> 1]

\* repo.html_url of the repository called name.
HtmlUrl(name) == <<"https://github.com/user/", name>>

\* f"https://{self.username}.github.io/{repo_name}/"
PagesUrl(name) == <<"https://user.github.io/", name, "/">>

NoPublication == [repo_url |-> <<>>, commit_sha |-> 0, pages_url |-> <<>>]

\* A thread's locals: task_data is the argument of process_task_async;
\* code_files names the file set generate_app returned (0: not assigned);
\* repo_name and files are the arguments of the running publication call;
\* publication is (repo_url, commit_sha, pages_url); calls lists, in order,
\* the calls the thread made and how each ended.
IdleThread ==
    [pc |-> "unborn", task_data |-> NoTaskData, code_files |-> 0,
     repo_name |-> "", files |-> 0, publication |-> NoPublication,
     success |-> FALSE, error |-> "", calls |-> <<>>]

NoRepo == [exists |-> FALSE, head |-> 0]

P_Init ==
    /\ LLM_PROVIDER \in Providers
    /\ processing_status = [t \in TaskIds |-> 0]
    /\ heap = <<>>
    /\ tasks_db = <<>>
    /\ nthreads = 0
    /\ threads = [e \in Execs |-> IdleThread]
    /\ github = [t \in TaskIds |-> NoRepo]
    /\ response = [code |-> 0, status |-> "", task |-> "", round |-> 0]

\* ------------------------------------------------------------------------
\* app.py: handle_task
\* ------------------------------------------------------------------------

\* The first required field the request lacks, as the for loop finds it.
RECURSIVE FirstMissing(_, _)
FirstMissing(fields, i) ==
    IF i > Len(required_fields) THEN 0
    ELSE IF required_fields[i] \notin fields THEN i
    ELSE FirstMissing(fields, i + 1)

\* Mutant: the secret is not compared.
HandleTaskCode_NoSecretCheck(req) ==
    IF FirstMissing(req.fields, 1) # 0 THEN 400
    ELSE 200

\* The status code handle_task answers with.
HandleTaskCode(req) ==
    IF FirstMissing(req.fields, 1) # 0 THEN 400
    ELSE IF req.secret # SECRET_CODE THEN 403
    ELSE 200

\* Mutant: the acceptance does not name the task it accepted.
HandleTaskResponse_NoEcho(req) ==
    IF HandleTaskCode(req) = 200
    THEN [code |-> 200, status |-> "accepted", task |-> "", round |-> 0]
    ELSE [code |-> HandleTaskCode(req), status |-> "error", task |-> "", round |-> 0]

\* What handle_task answers: the acceptance of lines 139-144, or an error.
HandleTaskResponse(req) ==
    IF HandleTaskCode(req) = 200
    THEN [code |-> 200, status |-> "accepted", task |-> req.task, round |-> req.round]
    ELSE [code |-> HandleTaskCode(req), status |-> "error", task |-> "", round |-> 0]

\* POST /api/task with body req: validate, start the thread, answer.
handle_task(req) ==
    /\ UNCHANGED <<LLM_PROVIDER, processing_status, heap, tasks_db, github>>
    /\ IF HandleTaskCode(req) = 200
       THEN /\ nthreads < MaxExec
            /\ nthreads' = nthreads + 1
            /\ threads' = [threads EXCEPT ![nthreads + 1] =
                   [IdleThread EXCEPT !.pc = "started",
                        !.task_data = [task |-> req.task, round |-> req.round]]]
       ELSE UNCHANGED <<nthreads, threads>>
    /\ response' = HandleTaskResponse(req)
    /\ UNCHANGED svars

HandleTask == \E req \in Requests : handle_task(req)

\* GET /api/status/<task_id>: the record under the key, or 404.  The
\* handler writes nothing.
check_status(task_id) ==
    IF task_id \in DOMAIN processing_status /\ HasStatus(task_id)
    THEN [code |-> 200, body |-> StatusOf(task_id)]
    ELSE [code |-> 404, body |-> [error |-> "Task not found"]]

\* ------------------------------------------------------------------------
\* code_generator.py: CodeGenerator.generate_app, as the pipeline sees it
\* ------------------------------------------------------------------------

\* The branches of _call_llm; any other name raises ValueError.
SupportedProviders == {"gemini", "openai", "anthropic"}

\* Mutant: an unknown name is served by the first back end.
BackEndCalls_DefaultsToFirst(provider) ==
    CASE provider = "openai" -> <<"_call_openai">>
      [] provider = "anthropic" -> <<"_call_anthropic">>
      [] OTHER -> <<"_call_gemini">>

\* The back-end methods one call of _call_llm runs, in order: the one of
\* the if/elif chain, or none before "raise ValueError".  Each posts the
\* prompt once.
BackEndCalls(provider) ==
    CASE provider = "gemini" -> <<"_call_gemini">>
      [] provider = "openai" -> <<"_call_openai">>
      [] provider = "anthropic" -> <<"_call_anthropic">>
      [] OTHER -> <<>>

\* How a call of generate_app can end: "ok", or the text of what it raised.
\* A supported back end posts the prompt and may fail (raise_for_status,
\* timeout, malformed envelope).
GenerateOutcomes(provider) ==
    IF provider \in SupportedProviders
    THEN {"ok", "HTTPError"}
    ELSE {"ValueError: Unsupported provider"}

\* ------------------------------------------------------------------------
\* app.py: process_task_async
\*
\* A thread's step ends at an access to shared state (the status tracker,
\* the tasks store, the hosting platform).  The return of a blocking call
\* and the statements up to the next such access are one step.
\* ------------------------------------------------------------------------

\* Mutant: every positive round takes the create path.
PublishPath_AnyRound(round_num) ==
    IF round_num >= 1 THEN "create_repo" ELSE "update_repo"

\* "if round_num == 1: create_repo ... else: update_repo".
PublishPath(round_num) == IF round_num = 1 THEN "create_repo" ELSE "update_repo"

\* First program counter of each path of the publication stage.
PathEntry(path) == IF path = "create_repo" THEN "cr_create" ELSE "up_get_repo"

\* Mutant: a failure of generate_app is swallowed and the try block goes on.
StageAfter_SwallowsGenerate(stage, result) ==
    CASE stage = "generate_app" -> "l47"
      [] stage = "publish" -> IF result = "raise" THEN "except" ELSE "l70"
      [] OTHER -> IF result = "raise" THEN "except" ELSE "l86"

\* Mutant: a failure of the publication call is swallowed likewise.
StageAfter_SwallowsPublish(stage, result) ==
    CASE stage = "generate_app" -> IF result = "raise" THEN "except" ELSE "l47"
      [] stage = "publish" -> "l70"
      [] OTHER -> IF result = "raise" THEN "except" ELSE "l86"

\* Where control goes when a stage of the try block returns or raises:
\* the statement after the call, or the except clause.
StageAfter(stage, result) ==
    IF result = "raise" THEN "except"
    ELSE CASE stage = "generate_app" -> "l47"
           [] stage = "publish" -> "l70"
           [] OTHER -> "l86"

\* Mutant: the final status ignores the reporter's result.
FinalStatus_AlwaysCompleted(success) == "completed"

\* 'completed' if success else 'failed'
FinalStatus(success) == IF success THEN "completed" ELSE "failed"

\* datetime.utcnow().isoformat(): only its presence in a dict is modelled.
Now == "utcnow"

\* Mutant: the record carries the site URL where the repository URL belongs.
FinalRecord_SwapsUrls(success, publication, now) ==
    [status |-> FinalStatus(success),
     step |-> "done",
     repo_url |-> publication.pages_url,
     commit_sha |-> publication.commit_sha,
     pages_url |-> publication.repo_url,
     submitted |-> success,
     timestamp |-> now]

\* The dict of lines 86-94.
FinalRecord(success, publication, now) ==
    [status |-> FinalStatus(success),
     step |-> "done",
     repo_url |-> publication.repo_url,
     commit_sha |-> publication.commit_sha,
     pages_url |-> publication.pages_url,
     submitted |-> success,
     timestamp |-> now]

\* The dict of lines 103-107.
ErrorRecord(text, now) ==
    [status |-> "error", error |-> text, timestamp |-> now]

Task(e) == threads[e].task_data.task
Round(e) == threads[e].task_data.round

\* processing_status[task_id]['step'] = step, on whatever dict the key holds.
SetStep(e, step) ==
    heap' = [heap EXCEPT ![processing_status[Task(e)]] = SetItem(@, "step", step)]

\* processing_status[task_id] = record, a new dict at reference ref.
SetStatus(e, ref, record) ==
    /\ heap' = SetItem(heap, ref, record)
    /\ processing_status' = [processing_status EXCEPT ![Task(e)] = ref]

\* Thread e, whose locals are now th, goes on at line `at` of the try block
\* and runs up to its next access to shared state.
GoOn(e, th, at) ==
    CASE at = "l47" ->
           \* step = 'creating_repo', then the branch on round_num
           /\ SetStep(e, "creating_repo")
           /\ threads' = [threads EXCEPT ![e] =
                  [th EXCEPT !.pc = PathEntry(PublishPath(Round(e))),
                             !.repo_name = Task(e),
                             !.files = th.code_files,
                             !.calls = Append(th.calls, PublishPath(Round(e)))]]
           /\ UNCHANGED processing_status
      [] at = "l70" ->
           \* step = 'submitting_evaluation', then submit_to_evaluation
           /\ SetStep(e, "submitting_evaluation")
           /\ threads' = [threads EXCEPT ![e] =
                  [th EXCEPT !.pc = "report",
                             !.calls = Append(th.calls, "submit_to_evaluation")]]
           /\ UNCHANGED processing_status
      [] at = "l86" ->
           \* the final dict replaces the key's dict
           /\ SetStatus(e, LastRef(e),
                        FinalRecord(th.success, th.publication, Now))
           /\ threads' = [threads EXCEPT ![e] = [th EXCEPT !.pc = "l97"]]
      [] OTHER ->
           \* except Exception as e: the error dict replaces the key's dict
           /\ SetStatus(e, LastRef(e), ErrorRecord(th.error, Now))
           /\ threads' = [threads EXCEPT ![e] = [th EXCEPT !.pc = "done"]]

\* A stage of thread e returned.
Returns(e, th, stage) ==
    GoOn(e, [th EXCEPT !.calls = Append(@, stage \o ":ok")],
         StageAfter(stage, "ok"))

\* A stage of thread e raised an exception whose str() is text.
Raises(e, stage, text) ==
    GoOn(e, [threads[e] EXCEPT !.error = text,
                               !.calls = Append(@, stage \o ":raise")],
         StageAfter(stage, "raise"))

\* The repository the running publication call of thread e works on.
Repo(e) == threads[e].repo_name

\* The publication call of thread e returned the triple for commit sha.
Publishes(e, sha) ==
    Returns(e, [threads[e] EXCEPT !.publication =
                   [repo_url |-> HtmlUrl(Repo(e)), commit_sha |-> sha,
                    pages_url |-> PagesUrl(Repo(e))]],
            "publish")

\* What the log of calls keeps of an exception in create_repo's try block:
\* a 422, with the place that raised it.
HandlerSaw(at, o) ==
    IF o.kind = "GithubException" /\ o.status = 422
    THEN <<at \o ":GithubException 422">> ELSE <<>>

\* A call made at pc `at` of create_repo's try block raised o.  The except
\* clause takes GithubException only: on 422 it returns
\* self.update_repo(repo_name, files), anything else it raises again.
CreateHandler(e, at, o) ==
    IF o.kind = "GithubException" /\ CreateFallsBack(o)
    THEN /\ threads' = [threads EXCEPT ![e] =
                [@ EXCEPT !.pc = PathEntry("update_repo"),
                          !.calls = @ \o HandlerSaw(at, o) \o <<"update_repo">>]]
         /\ UNCHANGED <<processing_status, heap>>
    ELSE GoOn(e, [threads[e] EXCEPT
                     !.error = ErrorText(o),
                     !.calls = @ \o HandlerSaw(at, o) \o <<"publish:raise">>],
              StageAfter("publish", "raise"))

\* A call of the publication stage succeeded and the stage goes on at pc.
Step(e, pc) ==
    /\ threads' = [threads EXCEPT ![e].pc = pc]
    /\ UNCHANGED <<processing_status, heap>>

\* Line 31: processing_status[task_id] = {'status': 'processing', ...}
\* With an unhashable task_id the assignment raises TypeError, and so does
\* the assignment of line 103 in the except clause: the exception leaves
\* process_task_async and the thread dies.
L31(e) ==
    /\ threads[e].pc = "started"
    /\ IF Hashable(Task(e))
       THEN /\ SetStatus(e, FirstRef(e),
                         [status |-> "processing", step |-> "initializing"])
            /\ threads' = [threads EXCEPT ![e].pc = "l34"]
       ELSE /\ threads' = [threads EXCEPT ![e] =
                   [@ EXCEPT !.pc = "died", !.error = "TypeError: unhashable type"]]
            /\ UNCHANGED <<processing_status, heap>>
    /\ UNCHANGED <<LLM_PROVIDER, tasks_db, nthreads, github, response>>
    /\ UNCHANGED svars

\* Line 34, and the call of generate_app begins.
L34(e) ==
    /\ threads[e].pc = "l34"
    /\ SetStep(e, "generating_code")
    /\ threads' = [threads EXCEPT ![e] =
           [@ EXCEPT !.pc = "generate", !.calls = Append(@, "generate_app")]]
    /\ UNCHANGED <<LLM_PROVIDER, processing_status, tasks_db, nthreads, github,
                   response>>
    /\ UNCHANGED svars

\* generate_app returns the file set or raises.
Generate(e) ==
    /\ threads[e].pc = "generate"
    /\ \E o \in GenerateOutcomes(LLM_PROVIDER) :
         IF o = "ok"
         THEN Returns(e, [threads[e] EXCEPT
                             !.code_files = e,
                             !.calls = @ \o BackEndCalls(LLM_PROVIDER)],
                      "generate_app")
         ELSE GoOn(e, [threads[e] EXCEPT
                          !.error = o,
                          !.calls = @ \o BackEndCalls(LLM_PROVIDER)
                                      \o <<"generate_app:raise">>],
                   StageAfter("generate_app", "raise"))
    /\ UNCHANGED <<LLM_PROVIDER, tasks_db, nthreads, github, response>>
    /\ UNCHANGED svars

\* create_repo: self.user.create_repo(name=repo_name, ...)
CrCreate(e) ==
    /\ threads[e].pc = "cr_create"
    /\ \E o \in CreateTargetOutcomes(github[Repo(e)]) :
         IF o.kind = "ok"
         THEN /\ github' = [github EXCEPT ![Repo(e)].exists = TRUE]
              /\ Step(e, "cr_commit")
         ELSE /\ CreateHandler(e, "cr_create", o)
              /\ UNCHANGED github
    /\ UNCHANGED <<LLM_PROVIDER, tasks_db, nthreads, response>>
    /\ UNCHANGED svars

\* _create_initial_commit: one blob per file, the tree, the commit.
CrCommit(e) ==
    /\ threads[e].pc = "cr_commit"
    /\ \E o \in GitDataOutcomes :
         IF o.kind = "ok"
         THEN Step(e, "cr_ref")
         ELSE CreateHandler(e, "cr_commit", o)
    /\ UNCHANGED <<LLM_PROVIDER, tasks_db, nthreads, github, response>>
    /\ UNCHANGED svars

\* _create_initial_commit: point heads/main at the commit (edit, else create).
CrRef(e) ==
    /\ threads[e].pc = "cr_ref"
    /\ \E o \in GitDataOutcomes :
         IF o.kind = "ok"
         THEN /\ github' = [github EXCEPT ![Repo(e)].head = e]
              /\ Step(e, "cr_pages")
         ELSE /\ CreateHandler(e, "cr_ref", o)
              /\ UNCHANGED github
    /\ UNCHANGED <<LLM_PROVIDER, tasks_db, nthreads, response>>
    /\ UNCHANGED svars

\* What create_repo does when create_pages_site behaves as o: _enable_pages
\* raises or returns the pages URL, and create_repo returns the triple.
CrPagesOn(e, o) ==
    IF EnablePagesRaises(o)
    THEN Raises(e, "publish", ErrorText(o))
    ELSE Publishes(e, e)

\* create_repo: _enable_pages, then return repo.html_url, commit_sha, pages_url.
CrPages(e) ==
    /\ threads[e].pc = "cr_pages"
    /\ \E o \in PagesOutcomes : CrPagesOn(e, o)
    /\ UNCHANGED <<LLM_PROVIDER, tasks_db, nthreads, github, response>>
    /\ UNCHANGED svars

\* What update_repo does when get_repo behaves as o: it goes on to the
\* files, or prints "Error updating repo" and raises the exception again.
UpGetRepoOn(e, o) ==
    IF o.kind = "ok"
    THEN Step(e, "up_files")
    ELSE Raises(e, "publish", ErrorText(o))

\* update_repo: self.user.get_repo(repo_name)
UpGetRepo(e) ==
    /\ threads[e].pc = "up_get_repo"
    /\ \E o \in GetRepoOutcomes(github[Repo(e)]) : UpGetRepoOn(e, o)
    /\ UNCHANGED <<LLM_PROVIDER, tasks_db, nthreads, github, response>>
    /\ UNCHANGED svars

\* update_repo: _update_or_create_file for each file; a failure may come
\* before any file was written or after some were.
UpFiles(e) ==
    /\ threads[e].pc = "up_files"
    /\ \E o \in ContentsOutcomes, wrote \in BOOLEAN :
         /\ o.kind = "ok" => wrote
         /\ github' = IF wrote THEN [github EXCEPT ![Repo(e)].head = e] ELSE github
         /\ IF o.kind = "ok"
            THEN Step(e, "up_commits")
            ELSE Raises(e, "publish", ErrorText(o))
    /\ UNCHANGED <<LLM_PROVIDER, tasks_db, nthreads, response>>
    /\ UNCHANGED svars

\* update_repo: latest_commit = repo.get_commits()[0].sha (409 on an empty
\* repository)
UpCommits(e) ==
    /\ threads[e].pc = "up_commits"
    /\ \E o \in CommitsOutcomes :
         IF o.kind = "ok" /\ github[Repo(e)].head # 0
         THEN /\ threads' = [threads EXCEPT ![e] =
                     [@ EXCEPT !.pc = "up_pages",
                               !.publication.commit_sha = github[Repo(e)].head]]
              /\ UNCHANGED <<processing_status, heap>>
         ELSE Raises(e, "publish", ErrorText(IF o.kind = "ok" THEN GhErr(409) ELSE o))
    /\ UNCHANGED <<LLM_PROVIDER, tasks_db, nthreads, github, response>>
    /\ UNCHANGED svars

\* update_repo: _enable_pages inside try/except-all, then return the triple.
UpPages(e) ==
    /\ threads[e].pc = "up_pages"
    /\ \E o \in PagesOutcomes : Publishes(e, threads[e].publication.commit_sha)
    /\ UNCHANGED <<LLM_PROVIDER, tasks_db, nthreads, github, response>>
    /\ UNCHANGED svars

\* The call of submit_to_evaluation (max_retries = 5) inside thread e runs
\* to its end: it touches no shared state, so its iterations are one step.
Report(e) ==
    /\ threads[e].pc = "report"
    /\ \E r \in SubmitOutcomes(1, DefaultMaxRetries) :
         IF r.kind = "return"
         THEN Returns(e, [threads[e] EXCEPT !.success = r.value],
                      "submit_to_evaluation")
         ELSE Raises(e, "submit_to_evaluation", "Exception")
    /\ UNCHANGED <<LLM_PROVIDER, tasks_db, nthreads, github, response>>
    /\ UNCHANGED svars

\* Lines 97-100: tasks_db[key] = {'task_data': ..., 'result': processing_status[task_id]}
L97(e) ==
    /\ threads[e].pc = "l97"
    /\ tasks_db' = SetItem(tasks_db, <<Email, Task(e), Round(e)>>,
           [task_data |-> threads[e].task_data,
            result |-> processing_status[Task(e)]])
    /\ threads' = [threads EXCEPT ![e].pc = "done"]
    /\ UNCHANGED <<LLM_PROVIDER, processing_status, heap, nthreads, github,
                   response>>
    /\ UNCHANGED svars

\* ------------------------------------------------------------------------
\* Specifications
\* ------------------------------------------------------------------------

Init == P_Init /\ R_Idle /\ G_Idle /\ B_Idle

Next ==
    \/ HandleTask
    \/ \E e \in Execs : L31(e)
    \/ \E e \in Execs : L34(e)
    \/ \E e \in Execs : Generate(e)
    \/ \E e \in Execs : CrCreate(e)
    \/ \E e \in Execs : CrCommit(e)
    \/ \E e \in Execs : CrRef(e)
    \/ \E e \in Execs : CrPages(e)
    \/ \E e \in Execs : UpGetRepo(e)
    \/ \E e \in Execs : UpFiles(e)
    \/ \E e \in Execs : UpCommits(e)
    \/ \E e \in Execs : UpPages(e)
    \/ \E e \in Execs : Report(e)
    \/ \E e \in Execs : L97(e)

Spec == Init /\ [][Next]_vars

\* The steps of the thread running process_task_async for execution e.
process_task_async(e) ==
    \/ L31(e) \/ L34(e) \/ Generate(e)
    \/ CrCreate(e) \/ CrCommit(e) \/ CrRef(e) \/ CrPages(e)
    \/ UpGetRepo(e) \/ UpFiles(e) \/ UpCommits(e) \/ UpPages(e)
    \/ Report(e) \/ L97(e)

\* The service when every thread that can take a step eventually takes one
\* (the process does not exit and every external call returns or fails).
SpecLive == Init /\ [][Next]_vars /\ \A e \in Execs : WF_vars(process_task_async(e))

InitReport == P_Init /\ LLM_PROVIDER = "groq" /\ R_Init /\ G_Idle /\ B_Idle

NextReport ==
    \/ R_Attempt /\ UNCHANGED <<pvars, gvars, bvars>>
    \/ R_Exhausted /\ UNCHANGED <<pvars, gvars, bvars>>

SpecReport == InitReport /\ [][NextReport]_vars

\* One call of generate_app from the completion on.
InitGen == P_Init /\ LLM_PROVIDER = "gemini" /\ R_Idle /\ G_Init /\ B_Idle

NextGen ==
    \/ G_Parse /\ UNCHANGED <<pvars, rvars, bvars>>
    \/ G_AddRequired /\ UNCHANGED <<pvars, rvars, bvars>>

SpecGen == InitGen /\ [][NextGen]_vars

\* One call of create_repo, as round 1 of the pipeline makes it.
InitPublish == P_Init /\ LLM_PROVIDER = "gemini" /\ R_Idle /\ G_Idle /\ B_Init

NextPublish ==
    \/ B_CreateRepo /\ UNCHANGED <<pvars, rvars, gvars>>
    \/ B_Blob /\ UNCHANGED <<pvars, rvars, gvars>>
    \/ B_Tree /\ UNCHANGED <<pvars, rvars, gvars>>
    \/ B_Commit /\ UNCHANGED <<pvars, rvars, gvars>>
    \/ B_Ref /\ UNCHANGED <<pvars, rvars, gvars>>
    \/ B_Pages /\ UNCHANGED <<pvars, rvars, gvars>>
    \/ B_GetRepo /\ UNCHANGED <<pvars, rvars, gvars>>
    \/ B_File /\ UNCHANGED <<pvars, rvars, gvars>>
    \/ B_Commits /\ UNCHANGED <<pvars, rvars, gvars>>
    \/ B_PagesU /\ UNCHANGED <<pvars, rvars, gvars>>

SpecPublish == InitPublish /\ [][NextPublish]_vars

\* ------------------------------------------------------------------------
\* Vocabulary of the properties
\* ------------------------------------------------------------------------

Started(e) == threads[e].pc # "unborn"

Calls(e) == threads[e].calls

\* Thread e made call (or saw return) ev.
Called(e, ev) == \E i \in 1..Len(Calls(e)) : Calls(e)[i] = ev

\* Thread e has written its terminal status dict (it lives at LastRef(e)).
Ended(e) == threads[e].pc \in {"l97", "done"}

EndRecord(e) == heap[LastRef(e)]

\* The events that start a publication call.
PublicationCalls == {"create_repo", "update_repo"}

\* A retryable failure of one POST: a 5xx answer, a timeout, a connection error.
IsRetryableFailure(o) ==
    \/ o.kind = "response" /\ o.status_code >= 500 /\ o.status_code < 600
    \/ o.kind \in {"Timeout", "RequestException"}

Is4xx(o) == o.kind = "response" /\ o.status_code >= 400 /\ o.status_code < 500

\* A request body the front door must reject.
Defective(req) ==
    \/ RequiredSet \ req.fields # {}
    \/ req.secret # SECRET_CODE

DefectiveRequests == {req \in Requests : Defective(req)}

\* The statuses the pipeline ends in.
TerminalStatuses == {"completed", "failed", "error"}

\* The status record of task id t is in a terminal state.
IsTerminal(t) == HasStatus(t) /\ StatusOf(t).status \in TerminalStatuses

\* The failures of create_pages_site other than 'already enabled' (409).
OtherPagesFailures == PagesOutcomes \ {GhOk, GhErr(409)}

\* Thread e has written the key of its task id in the status tracker
\* (it is past line 31).
HasWritten(e) == threads[e].pc \notin {"unborn", "started", "died"}

\* The files of the new file set a reader of heads/main sees.
NewVisible == {f \in 1..b_n : b_repo.main[f] = "new"}

\* The lines of the text a value of the file set stands for (the skeleton
\* of a wrapped completion opens with the doctype and closes with </html>).
ContentLines(c) ==
    IF c.kind = "wrapped"
    THEN <<"<!DOCTYPE html>">> \o c.body \o <<"</html>">>
    ELSE c.body

\* A line of text as the parser classifies it when it reads it.
ReadLine(text) ==
    IF \E n \in MarkerNames : text = Render([marker |-> TRUE, text |-> n])
    THEN [marker |-> TRUE,
          text |-> CHOOSE n \in MarkerNames : text = Render([marker |-> TRUE, text |-> n])]
    ELSE [marker |-> FALSE, text |-> text]

\* The file set written out with the delimiter convention: for each entry
\* the line "=== <name> ===", then the lines of its content.
RECURSIVE Serialize(_, _)
Serialize(files, names) ==
    IF names = {} THEN <<>>
    ELSE LET name == CHOOSE n \in names : TRUE
             body == ContentLines(files[name])
         IN  <<[marker |-> TRUE, text |-> name]>>
                 \o [i \in 1..Len(body) |-> ReadLine(body[i])]
                 \o Serialize(files, names \ {name})

\* Two file sets have the same names and the same text under each name.
SameFiles(f1, f2) ==
    /\ DOMAIN f1 = DOMAIN f2
    /\ \A n \in DOMAIN f1 : ContentLines(f1[n]) = ContentLines(f2[n])

\* The events of the log that are calls of a back end.
BackEndEvents == {"_call_gemini", "_call_openai", "_call_anthropic"}

\* The positions of the log of thread e that hold an event of the set evs.
Positions(e, evs) == {i \in 1..Len(Calls(e)) : Calls(e)[i] \in evs}

\* The request bodies that pass validation.
ValidRequests == {req \in Requests : ~Defective(req)}

\* ------------------------------------------------------------------------
\* Properties
\* ------------------------------------------------------------------------

\* C1: a pipeline execution that has called the reporter and has written its
\* terminal status wrote 'completed' exactly when submit_to_evaluation
\* returned True, and 'failed' exactly when it returned False.
C1_StatusFollowsReporter ==
    \A e \in Execs :
        (Called(e, "submit_to_evaluation") /\ Ended(e)) =>
            /\ EndRecord(e).status = "completed"
                 <=> (Called(e, "submit_to_evaluation:ok") /\ threads[e].success)
            /\ EndRecord(e).status = "failed"
                 <=> (Called(e, "submit_to_evaluation:ok") /\ ~threads[e].success)

\* One execution ended completed on True, another failed on False.
C1_Witness ==
    \E e1, e2 \in Execs :
        /\ Ended(e1) /\ Called(e1, "submit_to_evaluation:ok") /\ threads[e1].success
        /\ EndRecord(e1).status = "completed"
        /\ Ended(e2) /\ Called(e2, "submit_to_evaluation:ok") /\ ~threads[e2].success
        /\ EndRecord(e2).status = "failed"

\* C2: once generate_app has raised in an execution, that execution has
\* written status 'error' with the text of the exception and has called
\* neither create_repo, update_repo nor submit_to_evaluation; once its
\* publication call has raised, it has written status 'error' with the text
\* of the exception and has not called submit_to_evaluation.
C2_FailureEndsErrored ==
    \A e \in Execs :
        /\ Called(e, "generate_app:raise") =>
              /\ Ended(e)
              /\ EndRecord(e).status = "error"
              /\ EndRecord(e).error = threads[e].error
              /\ threads[e].error \in {"HTTPError", "ValueError: Unsupported provider"}
              /\ \A ev \in PublicationCalls \cup {"submit_to_evaluation"} : ~Called(e, ev)
        /\ Called(e, "publish:raise") =>
              /\ Ended(e)
              /\ EndRecord(e).status = "error"
              /\ EndRecord(e).error = threads[e].error
              /\ threads[e].error # ""
              /\ ~Called(e, "submit_to_evaluation")

\* The generator raised in one execution and the publication call in another.
C2_Witness ==
    \E e1, e2 \in Execs :
        /\ Called(e1, "generate_app:raise") /\ threads[e1].pc = "done"
        /\ Called(e2, "publish:raise") /\ threads[e2].pc = "done"

\* C3: in every execution, each publication call comes after generate_app
\* has returned (and code_files is assigned while it runs), and the call of
\* submit_to_evaluation comes after the publication call has returned.
C3_StagesInOrder ==
    \A e \in Execs : \A i \in 1..Len(Calls(e)) :
        /\ Calls(e)[i] \in PublicationCalls =>
              /\ \E j \in 1..(i - 1) : Calls(e)[j] = "generate_app:ok"
              /\ threads[e].code_files # 0
        /\ Calls(e)[i] = "submit_to_evaluation" =>
              /\ \E j \in 1..(i - 1) :
                    /\ Calls(e)[j] = "publish:ok"
                    /\ \E k \in 1..(j - 1) : Calls(e)[k] \in PublicationCalls
              /\ threads[e].publication # NoPublication

\* An execution went through all three stages.
C3_Witness ==
    \E e \in Execs :
        /\ Called(e, "submit_to_evaluation:ok")
        /\ Called(e, "publish:ok")
        /\ Called(e, "generate_app:ok")

\* C4: the first publication call of an execution, made as soon as
\* generate_app has returned, is create_repo when the round is 1 and
\* update_repo when it is greater than 1; create_repo is never called for a
\* round greater than 1, and for round 1 update_repo is called only from
\* inside create_repo.
C4_PathByRound ==
    \A e \in Execs : \A i \in 1..Len(Calls(e)) :
        /\ (Calls(e)[i] = "generate_app:ok" /\ i < Len(Calls(e))) =>
              Calls(e)[i + 1] = IF Round(e) = 1 THEN "create_repo" ELSE "update_repo"
        /\ (Calls(e)[i] = "generate_app:ok" /\ Started(e)) => i < Len(Calls(e))
        /\ Calls(e)[i] = "create_repo" => Round(e) = 1
        /\ (Calls(e)[i] = "update_repo" /\ Round(e) = 1) =>
              \E j \in 1..(i - 1) : Calls(e)[j] = "create_repo"

\* A round-1 execution called create_repo and a round-2 one update_repo.
C4_Witness ==
    \E e1, e2 \in Execs :
        /\ Round(e1) = 1 /\ Called(e1, "create_repo")
        /\ Round(e2) > 1 /\ Called(e2, "update_repo")

\* C5 as stated: when user.create_repo fails with 422 because the
\* repository exists, the publication call does not fail.
C5_AsStated ==
    \A e \in Execs :
        Called(e, "cr_create:GithubException 422") => ~Called(e, "publish:raise")

\* C5, amended: when user.create_repo fails with 422 because the repository
\* exists, create_repo calls update_repo with its own repo_name and files,
\* and ends as that call ends: if update_repo returns, the publication is
\* its triple (the repository's URLs and the commit get_commits reported)
\* and the pipeline goes on to submit_to_evaluation; create_repo raises only
\* what update_repo raised.
C5_CollisionRunsUpdate ==
    \A e \in Execs : \A i \in 1..Len(Calls(e)) :
        Calls(e)[i] = "cr_create:GithubException 422" =>
            /\ i < Len(Calls(e)) /\ Calls(e)[i + 1] = "update_repo"
            /\ threads[e].repo_name = Task(e)
            /\ threads[e].files = threads[e].code_files
            /\ threads[e].pc \in {"up_get_repo", "up_files", "up_commits", "up_pages",
                                  "report", "l97", "done"}
            /\ Called(e, "publish:ok") =>
                  /\ threads[e].publication.repo_url = HtmlUrl(Task(e))
                  /\ threads[e].publication.pages_url = PagesUrl(Task(e))
                  /\ threads[e].publication.commit_sha # 0
                  /\ Called(e, "submit_to_evaluation")
            /\ Called(e, "publish:raise") =>
                  threads[e].error \in
                      {"GithubException 404", "GithubException 409",
                       "GithubException 503", "ConnectionError"}

\* A collision on create was answered by an update that published.
C5_Witness ==
    \E e \in Execs :
        /\ Called(e, "cr_create:GithubException 422")
        /\ Called(e, "publish:ok")
        /\ Called(e, "submit_to_evaluation")

\* C6: a 4xx answer is the last thing the call does: it is the last attempt,
\* the call has returned False, and no sleep follows it (fewer sleeps than
\* attempts); when the first answer is 4xx exactly one attempt is made.
C6_ClientErrorIsTerminal ==
    \A i \in 1..Len(r_posts) :
        Is4xx(r_posts[i]) =>
            /\ i = Len(r_posts)
            /\ r_attempt = i
            /\ r_pc = "returned"
            /\ r_ret = FALSE
            /\ Len(r_sleeps) < i
            /\ (i = 1 => r_sleeps = <<>>)

\* A server that answers 400 was tried once.
C6_Witness ==
    /\ Len(r_posts) = 1
    /\ r_posts[1].status_code = 400
    /\ r_pc = "returned"
    /\ r_attempt = 1

\* C7: with max_retries <= 5, when the first k attempts were retryable
\* failures and attempt k + 1 got 200, the call has returned
\* True after k + 1 attempts and k sleeps, the first k of 1, 2, 4, 8, 16.
C7_SuccessAfterRetries ==
    \A k \in 0..4 :
        ( /\ r_max_retries <= 5
          /\ k < r_max_retries
          /\ Len(r_posts) = k + 1
          /\ \A i \in 1..k : IsRetryableFailure(r_posts[i])
          /\ r_posts[k + 1].kind = "response"
          /\ r_posts[k + 1].status_code = 200 )
        => /\ r_pc = "returned"
           /\ r_ret = TRUE
           /\ r_attempt = k + 1
           /\ r_sleeps = SubSeq(<<1, 2, 4, 8, 16>>, 1, k)

\* 500, 500, 500, 200: three sleeps of 1, 2 and 4 seconds, then True.
C7_Witness ==
    /\ Len(r_posts) = 4
    /\ \A i \in 1..3 : r_posts[i].status_code = 500
    /\ r_posts[4].status_code = 200
    /\ r_sleeps = <<1, 2, 4>>
    /\ r_ret = TRUE
    /\ r_pc = "returned"

\* C8 as stated: for every max_retries >= 1, a call all of whose attempts
\* were retryable failures returns False after exactly max_retries attempts.
C8_AsStated ==
    ( /\ r_pc = "returned"
      /\ r_max_retries >= 1
      /\ \A i \in 1..Len(r_posts) : IsRetryableFailure(r_posts[i]) )
    => /\ r_ret = FALSE
       /\ r_attempt = r_max_retries

\* C9 as stated: no exception leaves submit_to_evaluation.
C9_AsStated == r_pc # "raised"

\* C10: a step of handle_task on a body that lacks a required field or
\* carries another secret answers with a rejection (400 or 403) and starts
\* no thread; the status tracker and the tasks store stay as they are.
\* (Every step either is such a rejection, or is no step of handle_task on a
\* defective body.)
C10_RejectionChangesNothing ==
    [][\/ /\ response'.code \in {400, 403}
          /\ response'.status = "error"
          /\ UNCHANGED <<nthreads, threads, processing_status, heap, tasks_db>>
       \/ ~ \E req \in DefectiveRequests : handle_task(req)]_vars

\* A request was rejected while results of earlier pipelines were stored.
C10_Witness ==
    /\ response.code = 403
    /\ nthreads >= 1
    /\ DOMAIN tasks_db # {}
    /\ \E t \in TaskIds : HasStatus(t)

\* C11: a step of handle_task on a body that passes validation answers with
\* the acceptance of that body's task and round in the very step that starts
\* the thread: the new thread has run nothing yet, no other thread moves,
\* and the tracker, the tasks store and the platform are as they were,
\* whatever state the earlier pipelines are in.  No step of a pipeline
\* changes the response afterwards.  (handle_task on such a body always
\* starts a thread, so a step that starts none is no such step.)
C11_AcceptsWithoutWaiting ==
    [][/\ \/ /\ nthreads' = nthreads + 1
             /\ response'.code = 200
             /\ response'.status = "accepted"
             /\ response'.task = threads'[nthreads'].task_data.task
             /\ response'.round = threads'[nthreads'].task_data.round
             /\ threads'[nthreads'].pc = "started"
             /\ threads'[nthreads'].calls = <<>>
             /\ \A e \in Execs \ {nthreads'} : threads'[e] = threads[e]
             /\ UNCHANGED <<processing_status, heap, tasks_db, github>>
          \/ nthreads' = nthreads
          \/ ~ \E req \in ValidRequests : handle_task(req)
       /\ \/ response' = response
          \/ \A e \in Execs : threads[e].pc # "unborn" => threads'[e] = threads[e]]_vars

\* A request was accepted, its thread not yet run, while an earlier pipeline
\* had already ended in error.
C11_Witness ==
    /\ response.code = 200
    /\ nthreads = 2
    /\ threads[2].pc = "started"
    /\ response.task = threads[2].task_data.task
    /\ threads[1].pc = "done"
    /\ heap[LastRef(1)].status = "error"

\* C12 as stated: once the status record of a task id is terminal, no step
\* changes it: the key keeps its dict and the dict keeps its content.
C12_AsStated ==
    [][\A t \in TaskIds :
          IsTerminal(t) =>
              /\ processing_status'[t] = processing_status[t]
              /\ heap'[processing_status[t]] = heap[processing_status[t]]]_vars

\* C13: every dict with a terminal status carries a timestamp; every dict
\* with status 'completed' or 'failed' was written by an execution whose
\* publication call returned, and its repo_url, commit_sha and pages_url
\* are the triple that call returned: the URLs of the execution's own
\* repository and a commit of it.
C13_TerminalRecordIsFull ==
    \A ref \in DOMAIN heap :
        heap[ref].status \in TerminalStatuses =>
            /\ "timestamp" \in DOMAIN heap[ref]
            /\ heap[ref].status \in {"completed", "failed"} =>
                  \E e \in Execs :
                      /\ ref = LastRef(e)
                      /\ Called(e, "publish:ok")
                      /\ heap[ref].repo_url = threads[e].publication.repo_url
                      /\ heap[ref].commit_sha = threads[e].publication.commit_sha
                      /\ heap[ref].pages_url = threads[e].publication.pages_url
                      /\ heap[ref].repo_url = HtmlUrl(Task(e))
                      /\ heap[ref].pages_url = PagesUrl(Task(e))
                      /\ heap[ref].commit_sha # 0

\* The tracker holds a completed record for one task and an error record
\* for the other.
C13_Witness ==
    \E t1, t2 \in TaskIds :
        /\ IsTerminal(t1) /\ StatusOf(t1).status = "completed"
        /\ IsTerminal(t2) /\ StatusOf(t2).status = "error"

\* C14 as stated: every started execution eventually has written a terminal
\* status for its task id.
C14_AsStated == \A e \in Execs : Started(e) ~> Ended(e)

\* C15 as stated, for the static-site enablement of the create path: a step
\* of create_repo in which create_pages_site failed, other than with
\* 'already enabled', makes the publication call raise.
C15_AsStated ==
    [][\A e \in Execs : \A o \in OtherPagesFailures :
          (threads[e].pc = "cr_pages" /\ CrPagesOn(e, o)) =>
              Called(e, "publish:raise")']_vars

\* C16 as stated: the file set generate_app returns has index.html, a
\* license file and README.md.
C16_AsStated ==
    g_pc = "returned" =>
        /\ "index.html" \in DOMAIN g_files
        /\ DOMAIN g_files \cap {"LICENSE", "LICENSE.md"} # {}
        /\ "README.md" \in DOMAIN g_files

\* C20 as stated: every file the completion produced is in the returned
\* file set with the content parsed for it.
C20_AsStated ==
    g_pc = "returned" =>
        \A name \in DOMAIN CompletionFiles(g_response) :
            /\ name \in DOMAIN g_files
            /\ g_files[name] = CompletionFiles(g_response)[name]

\* C17 as stated: no two executions have written the same key of the
\* status tracker.
C17_AsStated ==
    \A e1, e2 \in Execs :
        (e1 # e2 /\ HasWritten(e1) /\ HasWritten(e2)) => Task(e1) # Task(e2)

\* C18 as stated: when get_repo, the first platform call of a round-2
\* publication for an existing repository, fails with 503, the execution
\* does not end in error.
C18_AsStated ==
    [][\A e \in Execs :
          ( /\ threads[e].pc = "up_get_repo"
            /\ Round(e) = 2
            /\ ~Called(e, "create_repo")
            /\ github[Repo(e)].exists
            /\ UpGetRepoOn(e, GhErr(503)) )
          => ~ (Ended(e) /\ EndRecord(e).status = "error")']_vars

\* C19 as stated: at every moment of a round-1 publication a reader of
\* heads/main sees none of the new file set or all of it.
C19_AsStated == NewVisible = {} \/ NewVisible = 1..b_n

\* C19, amended: as long as create_repo has not fallen back to update_repo,
\* a reader of heads/main sees none of the new file set or all of it; the
\* call sets the reference at most once, and when it has, every blob, the
\* tree of all of them and the commit of that tree had been created and the
\* branch holds the whole file set; before, it holds none of it.
C19_CreatePathIsAtomic ==
    ~b_fellback =>
        /\ NewVisible = {} \/ NewVisible = 1..b_n
        /\ b_refsets <= 1
        /\ b_refsets = 1 =>
              /\ b_blobs = b_n /\ b_tree = b_n /\ b_commit = b_n
              /\ NewVisible = 1..b_n
              /\ b_pc \in {"pages", "returned", "raised"}
        /\ b_refsets = 0 =>
              /\ NewVisible = {}
              /\ b_pc \notin {"pages", "returned"}

\* A file set of several files was published by the create path.
C19_Witness ==
    /\ b_n >= 2
    /\ ~b_fellback
    /\ b_pc = "returned"
    /\ b_refsets = 1
    /\ NewVisible = 1..b_n

\* C21 as stated: the file set _parse_response made of a completion, with no
\* attachments, is what the parser makes again of that file set written out
\* with the delimiter convention.
C21_AsStated ==
    (g_pc = "add_required" /\ g_attachments = <<>>) =>
        SameFiles(parse_response(Serialize(g_files, DOMAIN g_files), <<>>), g_files)

\* C22 as stated, for the publication stage: the step in which an execution
\* leaves generate_app and enters its publication call records the step
\* name 'creating_repo' when its round is 1 and 'updating_repo' when its
\* round is greater than 1.
C22_AsStated ==
    [][\A e \in Execs :
          (threads[e].pc = "generate" /\ Called(e, "generate_app:ok")') =>
              heap'[processing_status'[Task(e)]].step =
                  IF Round(e) = 1 THEN "creating_repo" ELSE "updating_repo"]_vars

C24_AsStated ==
    \A e \in Execs :
        (Started(e) /\ Task(e) \in TaskIds) => check_status(Task(e)).code = 200

\* C25: in every state, a status record with status completed or failed
\* has step done, a record with status error has no step field, and a
\* record with status processing has no timestamp and no publication
\* fields.
C25_AsStated ==
    \A t \in TaskIds :
        HasStatus(t) =>
            LET rec == StatusOf(t) IN
            /\ rec.status \in {"completed", "failed"} => rec.step = "done"
            /\ rec.status = "error" => "step" \notin DOMAIN rec
            /\ rec.status = "processing" =>
                   DOMAIN rec \cap {"timestamp", "repo_url", "commit_sha",
                                    "pages_url"} = {}

\* C26: within one call of create_repo, the step in which the handler
\* starts update_repo is the create-target call; a failure of a blob,
\* tree, commit or reference creation ends the call with that failure
\* raised.
C26_AsStated ==
    [][/\ (b_fellback' /\ ~b_fellback) => b_pc = "create"
       /\ (b_pc \in {"blob", "tree", "commit", "ref"}
              /\ b_pc' \notin {"blob", "tree", "commit", "ref", "pages"})
             => b_pc' = "raised"]_vars

\* C27: for every max_retries of at least one, when submit_to_evaluation
\* has returned after attempts that all were retryable failures, it slept
\* after every attempt but the last: the number of sleeps is one less than
\* the number of attempts made.
C27_AsStated ==
    (/\ r_pc = "returned"
     /\ r_max_retries >= 1
     /\ r_attempt >= 1
     /\ \A i \in 1..Len(r_posts) : IsRetryableFailure(r_posts[i]))
        => Len(r_sleeps) = r_attempt - 1

====
